---- MODULE Spec2Model ----
(***************************************************************************)
(* State-machine model of the person tracker of the MediWatch detection   *)
(* service (python-service/main.py): the process-wide PersonTracker, its   *)
(* update operation, the IoU computation, and the detect_persons handler   *)
(* that feeds it.                                                          *)
(*                                                                         *)
(* Numbers.  A Python float is a binary floating-point number: every sum,  *)
(* difference and product is rounded to the nearest number with a fixed    *)
(* count of significant bits, ties to even.  The model keeps that rounding *)
(* (fl) with MantissaBits significant bits in place of the 53 of a double, *)
(* and no exponent limits.  Box coordinates are integers counting equal    *)
(* fractions of the frame (eighths in the tracker runs, where every value  *)
(* is small enough to be exact).  An IoU value is kept as the fraction     *)
(* num/den with den > 0 and compared by cross-multiplication: for floats   *)
(* num and den the rounded quotient is 1 exactly when num = den, and at    *)
(* most 1 exactly when num <= den.  Time is counted in seconds.            *)
(*                                                                         *)
(* The tracks dict is a sequence of tracks in insertion order, the order a *)
(* Python dict iterates in; del keeps the order of the remaining keys.     *)
(***************************************************************************)
EXTENDS Integers, Sequences, FiniteSets, TLC

VARIABLES
    tracks,         \* person_tracker.tracks
    next_id,        \* person_tracker.next_id
    model_loaded,   \* model is not None
    now,            \* the wall clock, what time.time() returns
    frames,         \* number of frames handled so far
    outcome,        \* how the last frame ended: "none", "ok", "no_model",
                    \* "error" (the provider raised), "update_error"
    persons,        \* the last frame's returned persons
    tracked_count,  \* the last frame's returned count
    detections,     \* the last update call: the list it was given
    before,         \* the last update call: self.tracks on entry
    next_before,    \* the last update call: self.next_id on entry
    current_time,   \* the last update call: its current_time
    results,        \* the last update call: the list it returned
    call_events,    \* the last update call: what each detection met and did
    created,        \* every track id ever created, in creation order
    log,            \* per live track id, every box ever given to it, in order
    iou_args,       \* a pair of boxes handed to _iou
    iou_value,      \* what _iou returned for them, in both orders
    requests,       \* the /detect requests in flight: each one's position
                    \* in the handler and its local variables
    running         \* the request the event loop is running, 0 for none

\* What is left alone while frames are handled one after the other.
side_vars == <<iou_args, iou_value, requests, running>>

vars == <<tracks, next_id, model_loaded, now, frames, outcome, persons,
          tracked_count, detections, before, next_before, current_time,
          results, call_events, created, log, iou_args, iou_value, requests,
          running>>

-----------------------------------------------------------------------------
(* Configuration: PersonTracker() is built with its defaults.              *)

max_age == 2

history_capacity == 10

iou_threshold == [raised |-> FALSE, num |-> 3, den |-> 10]

-----------------------------------------------------------------------------
(* Arithmetic helpers.                                                     *)

\* Significant bits of a float in the model.
MantissaBits == 8

TwoToMantissa == 2 ^ MantissaBits

abs(v) == IF v < 0 THEN 0 - v ELSE v

\* The least power of two above n, for n >= 0.
RECURSIVE PowerAbove(_, _)
PowerAbove(n, q) == IF q > n THEN q ELSE PowerAbove(n, 2 * q)

\* v rounded to the nearest float, ties to the even mantissa.
fl(v) ==
    IF abs(v) < TwoToMantissa THEN v
    ELSE LET a == abs(v)
             ulp == PowerAbove(a, 1) \div TwoToMantissa
             lo == (a \div ulp) * ulp
             r == a - lo
             up == \/ 2 * r > ulp
                   \/ 2 * r = ulp /\ (lo \div ulp) % 2 = 1
             m == IF up THEN lo + ulp ELSE lo
         IN  IF v < 0 THEN 0 - m ELSE m

\* Whether v is a float.
IsFloat(v) == fl(v) = v

max(a, b) == IF a >= b THEN a ELSE b

min(a, b) == IF a <= b THEN a ELSE b

\* The float 0.0.
Zero == [raised |-> FALSE, num |-> 0, den |-> 1]

\* n / d: raises ZeroDivisionError when d = 0.
Div(n, d) ==
    IF d = 0 THEN [raised |-> TRUE, num |-> 0, den |-> 1]
    ELSE IF d < 0 THEN [raised |-> FALSE, num |-> 0 - n, den |-> 0 - d]
    ELSE [raised |-> FALSE, num |-> n, den |-> d]

\* Variant: a >= b.
GtOrEqual(a, b) == a.num * b.den >= b.num * a.den

\* a > b on fractions with positive denominators.
Gt(a, b) == a.num * b.den > b.num * a.den

-----------------------------------------------------------------------------
(* PersonTracker._iou                                                      *)

\* Variant: reads width and height as the far corner x2, y2.
_iou_corners(box1, box2) ==
    LET ix1 == max(box1[1], box2[1])
        iy1 == max(box1[2], box2[2])
        ix2 == min(box1[3], box2[3])
        iy2 == min(box1[4], box2[4])
        inter_area == (ix2 - ix1) * (iy2 - iy1)
        area1 == (box1[3] - box1[1]) * (box1[4] - box1[2])
        area2 == (box2[3] - box2[1]) * (box2[4] - box2[2])
        union_area == area1 + area2 - inter_area
    IN  IF ix2 <= ix1 \/ iy2 <= iy1 THEN Zero
        ELSE IF union_area > 0 THEN Div(inter_area, union_area)
        ELSE Zero

\* Variant: the union does not take the intersection out.
_iou_plain_union(box1, box2) ==
    LET ax2 == fl(box1[1] + box1[3])
        ay2 == fl(box1[2] + box1[4])
        bx2 == fl(box2[1] + box2[3])
        by2 == fl(box2[2] + box2[4])
        ix1 == max(box1[1], box2[1])
        iy1 == max(box1[2], box2[2])
        ix2 == min(ax2, bx2)
        iy2 == min(ay2, by2)
        inter_area == fl(fl(ix2 - ix1) * fl(iy2 - iy1))
        area1 == fl(box1[3] * box1[4])
        area2 == fl(box2[3] * box2[4])
        union_area == fl(area1 + area2)
    IN  IF ix2 <= ix1 \/ iy2 <= iy1 THEN Zero
        ELSE IF union_area > 0 THEN Div(inter_area, union_area)
        ELSE Zero

\* Variant: divides without looking at the union.
_iou_unguarded(box1, box2) ==
    LET ax2 == fl(box1[1] + box1[3])
        ay2 == fl(box1[2] + box1[4])
        bx2 == fl(box2[1] + box2[3])
        by2 == fl(box2[2] + box2[4])
        ix1 == max(box1[1], box2[1])
        iy1 == max(box1[2], box2[2])
        ix2 == min(ax2, bx2)
        iy2 == min(ay2, by2)
        inter_area == fl(fl(ix2 - ix1) * fl(iy2 - iy1))
        area1 == fl(box1[3] * box1[4])
        area2 == fl(box2[3] * box2[4])
        union_area == fl(fl(area1 + area2) - inter_area)
    IN  IF ix2 <= ix1 \/ iy2 <= iy1 THEN Zero
        ELSE Div(inter_area, union_area)

\* Variant: takes the first box's area for both.
_iou_first_area(box1, box2) ==
    LET ax2 == fl(box1[1] + box1[3])
        ay2 == fl(box1[2] + box1[4])
        bx2 == fl(box2[1] + box2[3])
        by2 == fl(box2[2] + box2[4])
        ix1 == max(box1[1], box2[1])
        iy1 == max(box1[2], box2[2])
        ix2 == min(ax2, bx2)
        iy2 == min(ay2, by2)
        inter_area == fl(fl(ix2 - ix1) * fl(iy2 - iy1))
        area1 == fl(box1[3] * box1[4])
        area2 == fl(box1[3] * box1[4])
        union_area == fl(fl(area1 + area2) - inter_area)
    IN  IF ix2 <= ix1 \/ iy2 <= iy1 THEN Zero
        ELSE IF union_area > 0 THEN Div(inter_area, union_area)
        ELSE Zero

_iou(box1, box2) ==
    LET x1 == box1[1]
        y1 == box1[2]
        w1 == box1[3]
        h1 == box1[4]
        x2 == box2[1]
        y2 == box2[2]
        w2 == box2[3]
        h2 == box2[4]
        ax1 == x1
        ay1 == y1
        ax2 == fl(x1 + w1)
        ay2 == fl(y1 + h1)
        bx1 == x2
        by1 == y2
        bx2 == fl(x2 + w2)
        by2 == fl(y2 + h2)
        ix1 == max(ax1, bx1)
        iy1 == max(ay1, by1)
        ix2 == min(ax2, bx2)
        iy2 == min(ay2, by2)
        inter_area == fl(fl(ix2 - ix1) * fl(iy2 - iy1))
        area1 == fl(w1 * h1)
        area2 == fl(w2 * h2)
        union_area == fl(fl(area1 + area2) - inter_area)
    IN  IF ix2 <= ix1 \/ iy2 <= iy1 THEN Zero
        ELSE IF union_area > 0 THEN Div(inter_area, union_area)
        ELSE Zero

-----------------------------------------------------------------------------
(* PersonTracker.update                                                    *)

det_box(det) == <<det.x, det.y, det.width, det.height>>

\* Variant: a track is stale from max_age on.
StaleAtLimit(track, t) == t - track.last_seen >= max_age

\* The test of the stale_ids comprehension.
Stale(track, t) == t - track.last_seen > max_age

\* stale_ids, as a set.
stale_ids(trks, t) == {trks[i].tid : i \in {j \in 1..Len(trks) : Stale(trks[j], t)}}

\* Variant: evicts a second late.
RemoveStaleLate(trks, t) ==
    SelectSeq(trks, LAMBDA track : ~(t - track.last_seen > max_age + 1))

\* Variant: clears the table as soon as one track is stale.
RemoveStaleClear(trks, t) ==
    IF stale_ids(trks, t) = {} THEN trks ELSE <<>>

\* for tid in stale_ids: del self.tracks[tid]
RemoveStale(trks, t) ==
    LET stale == stale_ids(trks, t)
    IN  SelectSeq(trks, LAMBDA track : track.tid \notin stale)

\* The inner loop over self.tracks.items(): 0 stands for None.
RECURSIVE ScanTracks(_, _, _, _, _, _)
ScanTracks(trks, i, box, matched_tracks, best_match, best_iou) ==
    IF i > Len(trks) THEN [raised |-> FALSE, best_match |-> best_match]
    ELSE IF trks[i].tid \in matched_tracks
    THEN ScanTracks(trks, i + 1, box, matched_tracks, best_match, best_iou)
    ELSE LET iou == _iou(box, trks[i].box)
         IN  IF iou.raised THEN [raised |-> TRUE, best_match |-> 0]
             ELSE IF Gt(iou, best_iou)
             THEN ScanTracks(trks, i + 1, box, matched_tracks, trks[i].tid, iou)
             ELSE ScanTracks(trks, i + 1, box, matched_tracks, best_match, best_iou)

BestMatch(trks, box, matched_tracks) ==
    ScanTracks(trks, 1, box, matched_tracks, 0, iou_threshold)

\* Variant: pop() instead of pop(0), dropping the newest box.
AppendHistoryDropNewest(history, box) ==
    LET h == Append(history, box)
    IN  IF Len(h) > history_capacity THEN SubSeq(h, 1, Len(h) - 1) ELSE h

\* history.append(det_box), then pop(0) when longer than 10.
AppendHistory(history, box) ==
    LET h == Append(history, box)
    IN  IF Len(h) > history_capacity THEN Tail(h) ELSE h

\* Variant: loses the landmarks.
TaggedNoLandmarks(det, tid) ==
    [x |-> det.x, y |-> det.y, width |-> det.width, height |-> det.height,
     confidence |-> det.confidence, landmarks |-> <<>>,
     track_id |-> tid]

\* det['track_id'] = ...
Tagged(det, tid) ==
    [x |-> det.x, y |-> det.y, width |-> det.width, height |-> det.height,
     confidence |-> det.confidence, landmarks |-> det.landmarks,
     track_id |-> tid]

\* Variant: does not record the track as matched.
UpdateTrackNoMark(st, det, best_match, t) ==
    [st EXCEPT
        !.tracks = [i \in 1..Len(@) |->
                      IF @[i].tid = best_match
                      THEN [tid |-> best_match,
                            box |-> det_box(det),
                            last_seen |-> t,
                            history |-> AppendHistory(@[i].history, det_box(det))]
                      ELSE @[i]],
        !.results = Append(@, Tagged(det, best_match)),
        !.events = Append(@, [kind |-> "match", tid |-> best_match,
                              box |-> det_box(det), table |-> st.tracks,
                              matched |-> st.matched_tracks,
                              next_id |-> st.next_id])]

\* Variant: a match refreshes last_seen of every track.
UpdateTrackTouchAll(st, det, best_match, t) ==
    [st EXCEPT
        !.matched_tracks = @ \cup {best_match},
        !.tracks = [i \in 1..Len(@) |->
                      IF @[i].tid = best_match
                      THEN [tid |-> best_match,
                            box |-> det_box(det),
                            last_seen |-> t,
                            history |-> AppendHistory(@[i].history, det_box(det))]
                      ELSE [@[i] EXCEPT !.last_seen = t]],
        !.results = Append(@, Tagged(det, best_match)),
        !.events = Append(@, [kind |-> "match", tid |-> best_match,
                              box |-> det_box(det), table |-> st.tracks,
                              matched |-> st.matched_tracks,
                              next_id |-> st.next_id])]

\* Variant: a match leaves last_seen as it was.
UpdateTrackKeepSeen(st, det, best_match, t) ==
    [st EXCEPT
        !.matched_tracks = @ \cup {best_match},
        !.tracks = [i \in 1..Len(@) |->
                      IF @[i].tid = best_match
                      THEN [tid |-> best_match,
                            box |-> det_box(det),
                            last_seen |-> @[i].last_seen,
                            history |-> AppendHistory(@[i].history, det_box(det))]
                      ELSE @[i]],
        !.results = Append(@, Tagged(det, best_match)),
        !.events = Append(@, [kind |-> "match", tid |-> best_match,
                              box |-> det_box(det), table |-> st.tracks,
                              matched |-> st.matched_tracks,
                              next_id |-> st.next_id])]

\* The branch "if best_match is not None".
UpdateTrack(st, det, best_match, t) ==
    [st EXCEPT
        !.matched_tracks = @ \cup {best_match},
        !.tracks = [i \in 1..Len(@) |->
                      IF @[i].tid = best_match
                      THEN [tid |-> best_match,
                            box |-> det_box(det),
                            last_seen |-> t,
                            history |-> AppendHistory(@[i].history, det_box(det))]
                      ELSE @[i]],
        !.results = Append(@, Tagged(det, best_match)),
        !.events = Append(@, [kind |-> "match", tid |-> best_match,
                              box |-> det_box(det), table |-> st.tracks,
                              matched |-> st.matched_tracks,
                              next_id |-> st.next_id])]

\* Variant: a new key goes first.
SetItemFirst(trks, track) ==
    IF \E i \in 1..Len(trks) : trks[i].tid = track.tid
    THEN [i \in 1..Len(trks) |-> IF trks[i].tid = track.tid THEN track ELSE trks[i]]
    ELSE <<track>> \o trks

\* self.tracks[tid] = track: a new key goes last, an existing key keeps its
\* place.
SetItem(trks, track) ==
    IF \E i \in 1..Len(trks) : trks[i].tid = track.tid
    THEN [i \in 1..Len(trks) |-> IF trks[i].tid = track.tid THEN track ELSE trks[i]]
    ELSE Append(trks, track)

\* Variant: numbers a new track by the table size, reusing freed ids.
CreateTrackReuse(st, det, t) ==
    LET tid == Len(st.tracks) + 1
    IN  [st EXCEPT
            !.tracks = SetItem(@, [tid |-> tid,
                                   box |-> det_box(det),
                                   last_seen |-> t,
                                   history |-> <<det_box(det)>>]),
            !.next_id = tid + 1,
            !.results = Append(@, Tagged(det, tid)),
            !.events = Append(@, [kind |-> "create", tid |-> tid,
                                  box |-> det_box(det), table |-> st.tracks,
                                  matched |-> st.matched_tracks,
                                  next_id |-> st.next_id])]

\* The branch "else": create a new track.
CreateTrack(st, det, t) ==
    [st EXCEPT
        !.tracks = SetItem(@, [tid |-> st.next_id,
                               box |-> det_box(det),
                               last_seen |-> t,
                               history |-> <<det_box(det)>>]),
        !.next_id = @ + 1,
        !.results = Append(@, Tagged(det, st.next_id)),
        !.events = Append(@, [kind |-> "create", tid |-> st.next_id,
                              box |-> det_box(det), table |-> st.tracks,
                              matched |-> st.matched_tracks,
                              next_id |-> st.next_id])]

\* One iteration of "for det in detections".
ProcessDetection(st, det, t) ==
    LET m == BestMatch(st.tracks, det_box(det), st.matched_tracks)
    IN  IF m.raised THEN [st EXCEPT !.raised = TRUE]
        ELSE IF m.best_match # 0 THEN UpdateTrack(st, det, m.best_match, t)
        ELSE CreateTrack(st, det, t)

RECURSIVE UpdateLoop(_, _, _, _)
UpdateLoop(st, dets, i, t) ==
    IF i > Len(dets) \/ st.raised THEN st
    ELSE UpdateLoop(ProcessDetection(st, dets[i], t), dets, i + 1, t)

\* Variant: matches first and evicts afterwards.
updateEvictLast(trks, nid, dets, t) ==
    LET st == UpdateLoop([tracks |-> trks,
                          next_id |-> nid,
                          matched_tracks |-> {},
                          results |-> <<>>,
                          raised |-> FALSE,
                          events |-> <<>>],
                         dets, 1, t)
    IN  [st EXCEPT !.tracks = RemoveStale(@, t)]

\* update(detections) on the table trks with counter nid at time t.  The
\* field events records, for the bookkeeping variables, what each detection
\* met (the table, matched_tracks and next_id when its turn came) and did
\* (which id it matched or created).
update(trks, nid, dets, t) ==
    UpdateLoop([tracks |-> RemoveStale(trks, t),
                next_id |-> nid,
                matched_tracks |-> {},
                results |-> <<>>,
                raised |-> FALSE,
                events |-> <<>>],
               dets, 1, t)

-----------------------------------------------------------------------------
(* Bookkeeping derived from one update call.                               *)

Ids(trks) == {trks[i].tid : i \in 1..Len(trks)}

\* The ids the events created, in order.
RECURSIVE CreatedBy(_, _)
CreatedBy(events, i) ==
    IF i > Len(events) THEN <<>>
    ELSE IF events[i].kind = "create"
    THEN <<events[i].tid>> \o CreatedBy(events, i + 1)
    ELSE CreatedBy(events, i + 1)

\* The log after the events: a created id starts a log, a matched id extends
\* its own.
RECURSIVE LogAfter(_, _, _)
LogAfter(lg, events, i) ==
    IF i > Len(events) THEN lg
    ELSE LET e == events[i]
             old == IF e.kind = "match" /\ e.tid \in DOMAIN lg THEN lg[e.tid] ELSE <<>>
             new == [k \in DOMAIN lg \cup {e.tid} |->
                        IF k = e.tid THEN Append(old, e.box) ELSE lg[k]]
         IN  LogAfter(new, events, i + 1)

Restrict(f, S) == [k \in DOMAIN f \cap S |-> f[k]]

-----------------------------------------------------------------------------
(* detect_persons and the clock.                                           *)

\* BoundingBox(... label=f"Person {track_id}", track_id=det.get('track_id'))
BoundingBox(det) ==
    [x |-> det.x, y |-> det.y, width |-> det.width, height |-> det.height,
     label |-> <<"Person", det.track_id>>, confidence |-> det.confidence,
     landmarks |-> det.landmarks, track_id |-> det.track_id]

\* Variant: counts the frame's detections, not the table.
ResponseCountsDetections(res, trks) ==
    [persons |-> [i \in 1..Len(res) |-> BoundingBox(res[i])],
     tracked_count |-> Len(res)]

\* The return value of the try block: persons, len(person_tracker.tracks).
Response(res, trks) ==
    [persons |-> [i \in 1..Len(res) |-> BoundingBox(res[i])],
     tracked_count |-> Len(trks)]

\* "if model is None: return [], 0"
DetectNoModel ==
    /\ ~model_loaded
    /\ frames' = frames + 1
    /\ outcome' = "no_model"
    /\ persons' = <<>>
    /\ tracked_count' = 0
    /\ UNCHANGED <<tracks, next_id, model_loaded, now, detections, before,
                   next_before, current_time, results, call_events, created, log>>
    /\ UNCHANGED side_vars

\* model.predict (or the landmark lookup) raises: the except branch returns
\* [], 0 and update is never called.
DetectPredictError ==
    /\ model_loaded
    /\ frames' = frames + 1
    /\ outcome' = "error"
    /\ persons' = <<>>
    /\ tracked_count' = 0
    /\ UNCHANGED <<tracks, next_id, model_loaded, now, detections, before,
                   next_before, current_time, results, call_events, created, log>>
    /\ UNCHANGED side_vars

\* The provider returns dets and person_tracker.update(dets) runs.  Should
\* update raise, the table keeps what the call did up to there and the
\* except branch returns [], 0.
DetectPersons(dets) ==
    /\ model_loaded
    /\ \E r \in {update(tracks, next_id, dets, now)} :
         \E resp \in {Response(r.results, r.tracks)} :
           /\ tracks' = r.tracks
           /\ next_id' = r.next_id
           /\ created' = created \o CreatedBy(r.events, 1)
           /\ log' = Restrict(LogAfter(Restrict(log, Ids(RemoveStale(tracks, now))),
                                       r.events, 1),
                              Ids(r.tracks))
           /\ detections' = dets
           /\ before' = tracks
           /\ next_before' = next_id
           /\ current_time' = now
           /\ results' = IF r.raised THEN <<>> ELSE r.results
           /\ call_events' = r.events
           /\ outcome' = IF r.raised THEN "update_error" ELSE "ok"
           /\ persons' = IF r.raised THEN <<>> ELSE resp.persons
           /\ tracked_count' = IF r.raised THEN 0 ELSE resp.tracked_count
    /\ frames' = frames + 1
    /\ UNCHANGED <<model_loaded, now>>
    /\ UNCHANGED side_vars

\* Time passes between frames.
Tick ==
    /\ now' = now + 1
    /\ UNCHANGED <<tracks, next_id, model_loaded, frames, outcome, persons,
                   tracked_count, detections, before, next_before,
                   current_time, results, call_events, created, log>>
    /\ UNCHANGED side_vars

-----------------------------------------------------------------------------
(* Inputs and bounds.                                                      *)

\* Seconds on the clock, and frames handled, in the scene and stream runs.
MaxTime == 3

MaxFrames == 2

StreamFrames == 3

\* The same for the long single-person run that fills a history.
HistTime == 1

HistFrames == 12

\* Frames handled in the matching runs.
MatchFrames == 3

\* What the provider and the landmark lookup hand over for one person.
Detection(box, confidence, landmarks) ==
    [x |-> box[1], y |-> box[2], width |-> box[3], height |-> box[4],
     confidence |-> confidence, landmarks |-> landmarks]

Lists(S) == {<<>>} \cup {<<a>> : a \in S} \cup {<<a, b>> : a, b \in S}

\* A scene: a person, the same person shifted (IoU 1/3), a person elsewhere,
\* and a negative-width box over the first person.  A frame shows at most
\* two of them.
SceneDetections ==
    { Detection(<<0, 0, 2, 2>>, 90, <<>>),
      Detection(<<1, 0, 2, 2>>, 80, <<"eyes">>),
      Detection(<<4, 4, 2, 2>>, 70, <<>>),
      Detection(<<2, 0, -2, 2>>, 50, <<"eyes">>) }

SceneLists == Lists(SceneDetections)

\* A stream of frames showing at most one box: positive boxes that overlap
\* (IoU 1/3 and 1/2), touch at an edge or fill the frame, boxes of zero width,
\* zero height and zero size, and a negative-width box.
StreamDetections ==
    { Detection(<<0, 0, 2, 2>>, 90, <<>>),
      Detection(<<1, 0, 2, 2>>, 80, <<"eyes">>),
      Detection(<<2, 0, 2, 2>>, 70, <<>>),
      Detection(<<0, 0, 4, 2>>, 65, <<>>),
      Detection(<<0, 0, 8, 8>>, 95, <<>>),
      Detection(<<0, 0, 0, 2>>, 60, <<>>),
      Detection(<<1, 0, 2, 0>>, 55, <<>>),
      Detection(<<8, 8, 0, 0>>, 30, <<>>),
      Detection(<<2, 0, -2, 2>>, 50, <<"eyes">>) }

StreamLists == {<<>>} \cup {<<a>> : a \in StreamDetections}

\* One person who moves between two overlapping positions (IoU 1/3).
HistLists ==
    { <<Detection(<<0, 0, 2, 2>>, 90, <<>>)>>,
      <<Detection(<<1, 0, 2, 2>>, 80, <<>>)>> }

\* Frames for the matching rules: two people side by side and a box that
\* overlaps both alike (IoU 1/3 with each); a small and a large person and a
\* box over both (IoU 1/3 and 2/3); a box and its shifted copy in both
\* orders; two boxes whose IoU is 3/10 exactly.
MatchLists ==
    { <<Detection(<<0, 0, 2, 2>>, 90, <<>>), Detection(<<2, 0, 2, 2>>, 70, <<>>)>>,
      <<Detection(<<1, 0, 2, 2>>, 80, <<>>)>>,
      <<Detection(<<0, 0, 2, 2>>, 90, <<>>)>>,
      <<Detection(<<1, 0, 2, 2>>, 80, <<>>), Detection(<<0, 0, 2, 2>>, 90, <<>>)>>,
      <<Detection(<<0, 0, 2, 2>>, 90, <<>>), Detection(<<2, 0, 4, 2>>, 85, <<>>)>>,
      <<Detection(<<0, 0, 6, 2>>, 75, <<>>)>>,
      <<Detection(<<0, 0, 1, 5>>, 60, <<>>)>>,
      <<Detection(<<0, 2, 2, 4>>, 65, <<>>)>> }

\* The tracker as constructed, and no frame handled yet.
InitTracker ==
    /\ tracks = <<>>
    /\ next_id = 1
    /\ now = 0
    /\ frames = 0
    /\ outcome = "none"
    /\ persons = <<>>
    /\ tracked_count = 0
    /\ detections = <<>>
    /\ before = <<>>
    /\ next_before = 1
    /\ current_time = 0
    /\ results = <<>>
    /\ call_events = <<>>
    /\ created = <<>>
    /\ log = <<>>

Init ==
    /\ InitTracker
    /\ model_loaded \in BOOLEAN
    /\ iou_args = <<>>
    /\ iou_value = <<>>
    /\ requests = <<>>
    /\ running = 0

\* The models loaded at start-up.
InitLoaded == Init /\ model_loaded

Next ==
    \/ frames < MaxFrames /\ \E dets \in SceneLists : DetectPersons(dets)
    \/ frames < MaxFrames /\ DetectPredictError
    \/ frames < MaxFrames /\ DetectNoModel
    \/ now < MaxTime /\ Tick

Spec == Init /\ [][Next]_vars

NextStream ==
    \/ frames < StreamFrames /\ \E dets \in StreamLists : DetectPersons(dets)
    \/ now < MaxTime /\ Tick

SpecStream == InitLoaded /\ [][NextStream]_vars

NextHist ==
    \/ frames < HistFrames /\ \E dets \in HistLists : DetectPersons(dets)
    \/ now < HistTime /\ Tick

SpecHist == InitLoaded /\ [][NextHist]_vars

NextMatch ==
    \/ frames < MatchFrames /\ \E dets \in MatchLists : DetectPersons(dets)
    \/ now < MaxTime /\ Tick

SpecMatch == InitLoaded /\ [][NextMatch]_vars

-----------------------------------------------------------------------------
(* _iou on its own: a pair of boxes is drawn, and _iou is applied to it in *)
(* both orders.  The coordinates sit on both sides of 2^MantissaBits, where *)
(* x + width stops being exact.                                            *)

IouXs == {0, 2, TwoToMantissa - 1, TwoToMantissa + 2}

IouYs == {0, 2, TwoToMantissa - 1}

IouWidths == {0 - 2, 0, 1, 2, 4}

IouHeights == {0, 2, 4}

IouBoxes ==
    {<<x, y, w, h>> : x \in IouXs, y \in IouYs, w \in IouWidths,
                      h \in IouHeights}

InitIou ==
    /\ InitTracker
    /\ model_loaded = TRUE
    /\ iou_args \in IouBoxes \X IouBoxes
    /\ iou_value = <<>>
    /\ requests = <<>>
    /\ running = 0

ComputeIou ==
    /\ iou_value = <<>>
    /\ iou_value' = <<_iou(iou_args[1], iou_args[2]),
                      _iou(iou_args[2], iou_args[1])>>
    /\ UNCHANGED <<tracks, next_id, model_loaded, now, frames, outcome,
                   persons, tracked_count, detections, before, next_before,
                   current_time, results, call_events, created, log,
                   iou_args, requests, running>>

NextIou == ComputeIou

SpecIou == InitIou /\ [][NextIou]_vars

-----------------------------------------------------------------------------
(* Several /detect requests in flight.  The handler is a coroutine on the  *)
(* one event loop of the one server process; it is cut here into the steps *)
(* of update (the eviction pass, one detection at a time, the return) so   *)
(* that an interleaving, were the loop to allow one, would show.  The loop *)
(* runs a coroutine until it awaits or returns, and detect never awaits.   *)

\* Requests in flight at once.
MaxRequests == 2

Requests == 1..MaxRequests

\* What a request may show: one person; a person and the same person
\* shifted (IoU 1/3); a person elsewhere.
RequestLists ==
    { <<Detection(<<0, 0, 2, 2>>, 90, <<>>)>>,
      <<Detection(<<0, 0, 2, 2>>, 90, <<>>),
        Detection(<<1, 0, 2, 2>>, 80, <<"eyes">>)>>,
      <<Detection(<<4, 4, 2, 2>>, 70, <<>>)>> }

IdleRequest ==
    [pc |-> "idle", detections |-> <<>>, current_time |-> 0, i |-> 0,
     matched_tracks |-> {}, results |-> <<>>]

InitLoop ==
    /\ InitTracker
    /\ model_loaded = TRUE
    /\ iou_args = <<>>
    /\ iou_value = <<>>
    /\ requests = [r \in Requests |-> IdleRequest]
    /\ running = 0

\* What the steps of a request in flight leave alone.
call_vars == <<model_loaded, frames, outcome, persons, tracked_count,
               detections, before, next_before, current_time, results,
               call_events, log, iou_args, iou_value>>

\* A POST /detect arrives; its frame holds the detections dets.
Receive(r, dets) ==
    /\ requests[r].pc = "idle"
    /\ requests' = [requests EXCEPT ![r].pc = "pending",
                                    ![r].detections = dets]
    /\ UNCHANGED <<tracks, next_id, now, created, running>>
    /\ UNCHANGED call_vars

\* The event loop, running nothing, starts the handler of request r.
Start(r) ==
    /\ running = 0
    /\ requests[r].pc = "pending"
    /\ running' = r
    /\ requests' = [requests EXCEPT ![r].pc = "evict"]
    /\ UNCHANGED <<tracks, next_id, now, created>>
    /\ UNCHANGED call_vars

\* update: current_time = time.time() and the removal of stale tracks.
Evict(r) ==
    /\ running = r
    /\ requests[r].pc = "evict"
    /\ tracks' = RemoveStale(tracks, now)
    /\ requests' = [requests EXCEPT ![r].pc = "match",
                                    ![r].current_time = now,
                                    ![r].i = 1,
                                    ![r].matched_tracks = {},
                                    ![r].results = <<>>]
    /\ UNCHANGED <<next_id, now, created, running>>
    /\ UNCHANGED call_vars

\* update: one iteration of "for det in detections".
Match(r) ==
    /\ running = r
    /\ requests[r].pc = "match"
    /\ requests[r].i <= Len(requests[r].detections)
    /\ \E st \in {ProcessDetection([tracks |-> tracks,
                                     next_id |-> next_id,
                                     matched_tracks |-> requests[r].matched_tracks,
                                     results |-> requests[r].results,
                                     raised |-> FALSE,
                                     events |-> <<>>],
                                    requests[r].detections[requests[r].i],
                                    requests[r].current_time)} :
           /\ tracks' = st.tracks
           /\ next_id' = st.next_id
           /\ created' = created \o CreatedBy(st.events, 1)
           /\ requests' = [requests EXCEPT
                              ![r].i = @ + 1,
                              ![r].matched_tracks = st.matched_tracks,
                              ![r].results = st.results]
    /\ UNCHANGED <<now, running>>
    /\ UNCHANGED call_vars

\* update returns, detect_persons builds the response, detect returns it.
Return(r) ==
    /\ running = r
    /\ requests[r].pc = "match"
    /\ requests[r].i > Len(requests[r].detections)
    /\ running' = 0
    /\ requests' = [requests EXCEPT ![r].pc = "done"]
    /\ \E resp \in {Response(requests[r].results, tracks)} :
           /\ persons' = resp.persons
           /\ tracked_count' = resp.tracked_count
    /\ outcome' = "ok"
    /\ frames' = frames + 1
    /\ detections' = requests[r].detections
    /\ current_time' = requests[r].current_time
    /\ results' = requests[r].results
    /\ UNCHANGED <<tracks, next_id, now, created, model_loaded, before,
                   next_before, call_events, log, iou_args, iou_value>>

\* The clock moves while requests are in flight.
TickLoop ==
    /\ now < MaxTime
    /\ now' = now + 1
    /\ UNCHANGED <<tracks, next_id, created, requests, running>>
    /\ UNCHANGED call_vars

NextLoop ==
    \/ \E r \in Requests, dets \in RequestLists : Receive(r, dets)
    \/ \E r \in Requests : Start(r)
    \/ \E r \in Requests : Evict(r)
    \/ \E r \in Requests : Match(r)
    \/ \E r \in Requests : Return(r)
    \/ TickLoop

SpecLoop == InitLoop /\ [][NextLoop]_vars

-----------------------------------------------------------------------------
(* Properties.  The variables detections, before, next_before, current_time *)
(* and results describe the most recent update call; tracks and next_id    *)
(* change in no other step, so they are that call's table on return.       *)

Survivors(trks, t) == SelectSeq(trks, LAMBDA track : ~Stale(track, t))

StaleBefore == {i \in 1..Len(before) : Stale(before[i], current_time)}

\* The ids the last update call handed out that were not in the table on entry.
NewIds == {results[i].track_id : i \in 1..Len(results)} \ Ids(before)

\* This step is a frame in which update ran and returned.
UpdateStep == frames' = frames + 1 /\ outcome' = "ok"

\* C1: in every update call no two detections are tagged with the same
\* track_id, also when the track was created by an earlier detection of the
\* same call.
C1_PairingIsOneToOne ==
    \A i, j \in 1..Len(results) :
        i # j => results[i].track_id # results[j].track_id

\* C2: track ids are strictly increasing in creation order and never
\* reused: every created id is below next_id, next_id has grown by exactly
\* one per created track, and every live id is a created one.
C2_IdsIncreaseNeverReused ==
    /\ \A i, j \in 1..Len(created) : i < j => created[i] < created[j]
    /\ \A i \in 1..Len(created) : 1 <= created[i] /\ created[i] < next_id
    /\ next_id = 1 + Len(created)
    /\ next_id >= next_before
    /\ \A i, j \in 1..Len(tracks) : i # j => tracks[i].tid # tracks[j].tid
    /\ Ids(tracks) \subseteq {created[i] : i \in 1..Len(created)}

\* A track was evicted and the next track got a larger id, not the freed one.
C2_Witness ==
    /\ Len(created) >= 2
    /\ created[1] \notin Ids(tracks)
    /\ created[Len(created)] \in Ids(tracks)
    /\ created[1] \in Ids(before)

C4_StaleTracksEvicted ==
    \A i \in StaleBefore : before[i].tid \notin Ids(tracks)

\* A call carrying the stale track's own box evicted it all the same.
C4_Witness ==
    \E i \in StaleBefore :
        /\ before[i].tid \notin Ids(tracks)
        /\ \E j \in 1..Len(detections) : det_box(detections[j]) = before[i].box

\* C5: no detection is tagged with the id of a track that was stale at the
\* start of the call: every tag is the id of a track that survived the
\* eviction or an id first handed out in this call.
C5_EvictionPrecedesMatching ==
    \A j \in 1..Len(results) :
        /\ \A i \in StaleBefore : results[j].track_id # before[i].tid
        /\ \/ results[j].track_id \in Ids(Survivors(before, current_time))
           \/ results[j].track_id >= next_before

\* A detection with the very box of a stale track got a fresh id.
C5_Witness ==
    \E j \in 1..Len(results) : \E i \in StaleBefore :
        /\ det_box(results[j]) = before[i].box
        /\ results[j].width > 0 /\ results[j].height > 0
        /\ results[j].track_id >= next_before

\* C6: the count reported for a frame whose update ran is the table size
\* after that call's evictions and creations.
C6_CountIsTableSize ==
    outcome = "ok" =>
        tracked_count = Len(before) - Cardinality(StaleBefore) + Cardinality(NewIds)

\* A frame that evicted, created, and reported a count other than the number
\* of its detections.
C6_Witness ==
    /\ outcome = "ok"
    /\ StaleBefore # {}
    /\ NewIds # {}
    /\ tracked_count # Len(results)
    /\ tracked_count = Len(tracks)

\* C7: every history holds at most history_capacity boxes and is the most
\* recent ones given to its track, oldest first.
C7_HistoryIsRecentBoxes ==
    \A i \in 1..Len(tracks) :
        LET h == tracks[i].history
            l == log[tracks[i].tid]
            n == min(history_capacity, Len(l))
        IN  /\ Len(h) <= history_capacity
            /\ Len(h) = n
            /\ h = SubSeq(l, Len(l) - n + 1, Len(l))

\* A track was given more boxes than a history holds, and its history starts
\* and ends with different boxes.
C7_Witness ==
    \E i \in 1..Len(tracks) :
        /\ Len(log[tracks[i].tid]) > history_capacity
        /\ Len(tracks[i].history) = history_capacity
        /\ tracks[i].history[1] # tracks[i].history[history_capacity]
        /\ log[tracks[i].tid][1] # tracks[i].history[1]

\* C8: update returns the detections it was given, in order, each unchanged
\* but for a track_id that is a positive integer.
C8_DetectionsPassThrough ==
    /\ Len(results) = Len(detections)
    /\ \A i \in 1..Len(results) :
        /\ results[i].x = detections[i].x
        /\ results[i].y = detections[i].y
        /\ results[i].width = detections[i].width
        /\ results[i].height = detections[i].height
        /\ results[i].confidence = detections[i].confidence
        /\ results[i].landmarks = detections[i].landmarks
        /\ results[i].track_id \in Nat \ {0}

\* Two different detections came back, one of them with landmarks.
C8_Witness ==
    /\ Len(results) = 2
    /\ results[1] # results[2]
    /\ results[2].landmarks # <<>>
    /\ results[1].track_id # results[2].track_id

\* C9: update never fails, and a call with no detections only ages the
\* table: it removes exactly the stale tracks, leaves the others and next_id
\* as they were, and returns an empty list.
C9_EmptyUpdateOnlyAges ==
    /\ outcome # "update_error"
    /\ detections = <<>> =>
          /\ tracks = Survivors(before, current_time)
          /\ next_id = next_before
          /\ results = <<>>

\* An empty call met a stale track and a live one.
C9_Witness ==
    /\ outcome = "ok"
    /\ detections = <<>>
    /\ frames > 0
    /\ StaleBefore # {}
    /\ Len(tracks) > 0
    /\ Len(tracks) < Len(before)

\* C10: a frame whose provider is missing or fails acts as an update with
\* no detections: the stale tracks go, the others stay, and the count
\* reported is the size of the table left.
C10_FailedFrameAgesTable ==
    [][(frames' = frames + 1 /\ outcome' \in {"no_model", "error"})
         => /\ tracks' = Survivors(tracks, now)
            /\ tracked_count' = Len(tracks')]_vars

-----------------------------------------------------------------------------
(* Properties of _iou.  A box's rectangle is read off independently of the  *)
(* code, as the set of unit cells it covers in exact arithmetic.            *)

Cells(box) ==
    {<<cx, cy>> : cx \in box[1]..(box[1] + box[3] - 1),
                  cy \in box[2]..(box[2] + box[4] - 1)}

Overlap(box1, box2) == Cells(box1) \cap Cells(box2) # {}

PositiveBox(box) == box[3] > 0 /\ box[4] > 0

DegenerateBox(box) == box[3] <= 0 \/ box[4] <= 0

\* The far corner of the box is computed without rounding.
ExactCorner(box) == IsFloat(box[1] + box[3]) /\ IsFloat(box[2] + box[4])

IouDone == Len(iou_value) = 2

IsOne(v) == ~v.raised /\ v.num = v.den

IsZero(v) == ~v.raised /\ v.num = 0

C17_DegenerateZeroNoDivisionError ==
    IouDone =>
        /\ \A i \in 1..2 :
              /\ ~iou_value[i].raised
              /\ iou_value[i].num >= 0
              /\ iou_value[i].den > 0
        /\ (DegenerateBox(iou_args[1]) \/ DegenerateBox(iou_args[2]))
              => IsZero(iou_value[1]) /\ IsZero(iou_value[2])

\* A box of negative width, spanning the very columns of the box it met.
C17_Witness ==
    /\ IouDone
    /\ iou_args[1] = <<2, 0, 0 - 2, 2>>
    /\ iou_args[2] = <<0, 0, 2, 2>>
    /\ IsZero(iou_value[1])
    /\ IsZero(iou_value[2])

NonNegativeBoxes ==
    \A i \in 1..2 : iou_args[i][3] >= 0 /\ iou_args[i][4] >= 0

Symmetric == iou_value[1].num * iou_value[2].den
                 = iou_value[2].num * iou_value[1].den

InUnitInterval(v) == ~v.raised /\ 0 <= v.num /\ v.num <= v.den

\* C20 as stated: for boxes of non-negative width and height _iou gives
\* the same value in both orders, and the value lies in [0, 1].
C20_SymmetricInUnitInterval_AsStated ==
    (IouDone /\ NonNegativeBoxes) =>
        /\ Symmetric
        /\ InUnitInterval(iou_value[1])
        /\ InUnitInterval(iou_value[2])

\* C20: for boxes of non-negative width and height _iou gives the same
\* value in both orders, the value is never negative, and it is at most 1
\* when both boxes' far corners are computed without rounding.
C20_SymmetricInUnitInterval ==
    (IouDone /\ NonNegativeBoxes) =>
        /\ Symmetric
        /\ \A i \in 1..2 : ~iou_value[i].raised /\ iou_value[i].num >= 0
        /\ (ExactCorner(iou_args[1]) /\ ExactCorner(iou_args[2]))
              => /\ InUnitInterval(iou_value[1])
                 /\ InUnitInterval(iou_value[2])

\* Two different boxes that share part of their area.
C20_Witness ==
    /\ IouDone
    /\ NonNegativeBoxes
    /\ iou_args[1] # iou_args[2]
    /\ ExactCorner(iou_args[1]) /\ ExactCorner(iou_args[2])
    /\ iou_value[1].num > 0
    /\ iou_value[1].num < iou_value[1].den
    /\ Symmetric

-----------------------------------------------------------------------------
(* Properties of the matching pass.  call_events holds, for each detection *)
(* of the most recent update call, the table, matched_tracks and next_id   *)
(* it met, and what it did.                                                *)

CallDone == frames > 0 /\ outcome = "ok"

AboveThreshold(v) == v.num * iou_threshold.den > iou_threshold.num * v.den

\* The places in the table the detection of event e may match.
Candidates(e) == {j \in 1..Len(e.table) : e.table[j].tid \notin e.matched}

CandidateIou(e, j) == _iou(e.box, e.table[j].box)

Above(e) == {j \in Candidates(e) : AboveThreshold(CandidateIou(e, j))}

AtMost(v, w) == v.num * w.den <= w.num * v.den

SameValue(v, w) == v.num * w.den = w.num * v.den

\* What the i-th detection met is what the call left for it: the table
\* after eviction and the earlier detections' creations, and as matched
\* tracks the ones the earlier detections matched.
EventsFollowCall ==
    /\ Len(call_events) = Len(detections)
    /\ Len(results) = Len(detections)
    /\ \A i \in 1..Len(call_events) :
          LET e == call_events[i]
          IN  /\ e.box = det_box(detections[i])
              /\ results[i].track_id = e.tid
              /\ e.matched = {call_events[k].tid :
                                k \in {n \in 1..(i - 1) :
                                          call_events[n].kind = "match"}}
              /\ Ids(e.table) =
                    Ids(Survivors(before, current_time))
                      \cup {call_events[k].tid :
                              k \in {n \in 1..(i - 1) :
                                        call_events[n].kind = "create"}}

\* C12: each detection, in input order, is tagged with the track of highest
\* IoU among the tracks not yet matched in the call when that IoU is above
\* iou_threshold; when no unmatched track has an IoU above the threshold
\* (equal to it included) a new track is created for the detection.
C12_BestUnmatchedAboveThreshold ==
    CallDone =>
        /\ EventsFollowCall
        /\ \A i \in 1..Len(call_events) :
              LET e == call_events[i]
              IN  IF Above(e) = {}
                  THEN /\ e.kind = "create"
                       /\ e.tid = e.next_id
                       /\ e.tid \notin Ids(e.table)
                  ELSE /\ e.kind = "match"
                       /\ \E j \in Above(e) :
                             /\ e.table[j].tid = e.tid
                             /\ \A k \in Above(e) :
                                   AtMost(CandidateIou(e, k), CandidateIou(e, j))

\* A detection met a track at an IoU of exactly the threshold.
C12_Witness ==
    /\ CallDone
    /\ \E i \in 1..Len(call_events) :
          LET e == call_events[i]
          IN  /\ e.kind = "create"
              /\ \E j \in Candidates(e) :
                    SameValue(CandidateIou(e, j), iou_threshold)

\* The later track wins when its IoU is the higher one.
C12_WitnessHighest ==
    /\ CallDone
    /\ \E i \in 1..Len(call_events) :
          LET e == call_events[i]
          IN  /\ e.kind = "match"
              /\ \E j, k \in Above(e) :
                    /\ j < k
                    /\ e.table[k].tid = e.tid
                    /\ ~AtMost(CandidateIou(e, k), CandidateIou(e, j))

Ascending(trks) ==
    \A i, j \in 1..Len(trks) : i < j => trks[i].tid < trks[j].tid

\* C13: the table is in ascending-id order whenever it is iterated, and of
\* the unmatched tracks that share the highest IoU with a detection the one
\* of smallest id is the one matched.
C13_TieGoesToSmallestId ==
    /\ Ascending(tracks)
    /\ CallDone =>
          \A i \in 1..Len(call_events) :
              LET e == call_events[i]
              IN  /\ Ascending(e.table)
                  /\ e.kind = "match" =>
                        \A j, k \in Above(e) :
                            (/\ e.table[j].tid = e.tid
                             /\ SameValue(CandidateIou(e, k), CandidateIou(e, j)))
                              => e.tid <= e.table[k].tid

\* Two tracks tied for a detection after an earlier track had been evicted.
C13_Witness ==
    /\ CallDone
    /\ \E i \in 1..Len(call_events) :
          LET e == call_events[i]
          IN  /\ e.kind = "match"
              /\ Ids(e.table) # 1..(e.next_id - 1)
              /\ \E j, k \in Above(e) :
                    /\ j # k
                    /\ e.table[j].tid = e.tid
                    /\ SameValue(CandidateIou(e, k), CandidateIou(e, j))

\* The surviving tracks whose IoU with the detection is above the threshold.
SurvivorsAbove(det) ==
    {j \in 1..Len(Survivors(before, current_time)) :
        AboveThreshold(_iou(det_box(det), Survivors(before, current_time)[j].box))}

\* Two detections in one call are above the threshold with one and the same
\* existing track and no other, the first-listed with the lower IoU.
ScenarioE ==
    /\ CallDone
    /\ Len(detections) = 2
    /\ SurvivorsAbove(detections[1]) = SurvivorsAbove(detections[2])
    /\ Cardinality(SurvivorsAbove(detections[1])) = 1
    /\ \A j \in SurvivorsAbove(detections[1]) :
          LET box == Survivors(before, current_time)[j].box
          IN  ~AtMost(_iou(det_box(detections[2]), box),
                      _iou(det_box(detections[1]), box))

\* C14: in Scenario E the first-listed detection is tagged with the
\* existing track's id and the second-listed one with a newly created id.
C14_FirstListedClaimsTrack ==
    ScenarioE =>
        /\ \A j \in SurvivorsAbove(detections[1]) :
              results[1].track_id = Survivors(before, current_time)[j].tid
        /\ results[2].track_id = next_before
        /\ results[2].track_id \notin Ids(before)
        /\ next_id = next_before + 1

\* Scenario E happened.
C14_Witness ==
    /\ ScenarioE
    /\ results[1].track_id < results[2].track_id
    /\ results[2].track_id \in Ids(tracks)

-----------------------------------------------------------------------------
(* Properties of the table after a call.                                   *)

\* The ids the most recent call created.
CreatedIds == next_before..(next_id - 1)

\* The ids the most recent call returned.
ReturnedIds == {results[i].track_id : i \in 1..Len(results)}

\* The ids that were within max_age at the eviction pass.
WithinMaxAge ==
    {before[i].tid :
        i \in {j \in 1..Len(before) :
                  current_time - before[j].last_seen <= max_age}}

\* C15: after an update call the table holds exactly the tracks that were
\* within max_age at the call's eviction pass and the tracks the call
\* created, and every track in it is within max_age of the call's time.
C15_TableIsFreshOrCreated ==
    CallDone =>
        /\ Ids(tracks) = WithinMaxAge \cup CreatedIds
        /\ \A i \in 1..Len(tracks) :
              current_time - tracks[i].last_seen <= max_age

\* One call evicted a track, kept one aged exactly max_age and created one.
C15_Witness ==
    /\ CallDone
    /\ Ids(before) \ WithinMaxAge # {}
    /\ \E i \in 1..Len(tracks) :
          current_time - tracks[i].last_seen = max_age
    /\ CreatedIds # {}

\* C18: a track that an update call neither evicts nor tags onto one of its
\* detections is in the table afterwards with the box, last_seen and
\* history it had, and every other entry of the table afterwards is a track
\* the call matched or created.
C18_UntouchedTracksKeepState ==
    CallDone =>
        /\ \A i \in 1..Len(before) :
              (before[i].tid \in WithinMaxAge \ ReturnedIds)
                => \E j \in 1..Len(tracks) : tracks[j] = before[i]
        /\ \A j \in 1..Len(tracks) :
              \/ tracks[j].tid \in ReturnedIds
              \/ \E i \in 1..Len(before) : tracks[j] = before[i]
        /\ Ids(before) \ Ids(tracks) = Ids(before) \ WithinMaxAge

\* A call matched one track and left another, seen earlier, alone.
C18_Witness ==
    /\ CallDone
    /\ \E i, j \in 1..Len(tracks) :
          /\ tracks[i].tid \in ReturnedIds \cap Ids(before)
          /\ tracks[j].tid \notin ReturnedIds
          /\ tracks[j].last_seen < current_time
          /\ tracks[j].history # <<>>

\* C19: every key of the table is a positive integer below next_id, every
\* track has a history whose last entry is its box, and every id a call
\* returns is a key of the table with last_seen equal to the call's time.
C19_TableWellFormed ==
    /\ \A i \in 1..Len(tracks) :
          /\ tracks[i].tid \in 1..(next_id - 1)
          /\ Len(tracks[i].history) > 0
          /\ tracks[i].history[Len(tracks[i].history)] = tracks[i].box
    /\ CallDone =>
          \A k \in 1..Len(results) :
              \E i \in 1..Len(tracks) :
                  /\ tracks[i].tid = results[k].track_id
                  /\ tracks[i].last_seen = current_time

\* A track with a full history was matched again, later, at another box.
C19_Witness ==
    /\ CallDone
    /\ current_time > 0
    /\ \E i \in 1..Len(tracks) :
          /\ tracks[i].tid \in ReturnedIds
          /\ Len(tracks[i].history) = history_capacity
          /\ tracks[i].history[1] # tracks[i].box
          /\ tracks[i].last_seen = current_time
          /\ \E k \in 1..Len(before) :
                /\ before[k].tid = tracks[i].tid
                /\ Len(before[k].history) = history_capacity

-----------------------------------------------------------------------------
(* Properties of requests in flight.                                       *)

\* The requests whose update call has begun and not returned.
InUpdate == {r \in Requests : requests[r].pc \in {"evict", "match"}}

Distinct(seq) == \A i, j \in 1..Len(seq) : i # j => seq[i] # seq[j]

\* No two detections of the request carry the same track_id.
PairedOneToOne(r) ==
    \A i, j \in 1..Len(requests[r].results) :
        i # j => requests[r].results[i].track_id
                   # requests[r].results[j].track_id

\* The update calls of requests in flight do not interleave, and no id is
\* given to two tracks.
SerializedUniqueIds ==
    /\ Cardinality(InUpdate) <= 1
    /\ InUpdate \subseteq {running}
    /\ Distinct(created)
    /\ Ids(tracks) \subseteq {created[i] : i \in 1..Len(created)}
    /\ Ascending(tracks)

\* Two requests have gone through update one after the other, and each
\* created a track.
SerializedUniqueIds_Witness ==
    /\ \A r \in Requests : requests[r].pc = "done"
    /\ Len(created) >= 2
    /\ now > 0

\* C11: with several requests in flight the update calls are serialized
\* (the steps of one never interleave with those of another), so that no
\* id is given to two tracks and, in each call, no two detections carry
\* the same track_id.
C11_SerializedCallsKeepInvariants ==
    /\ SerializedUniqueIds
    /\ \A r \in Requests : PairedOneToOne(r)

====
